---- MODULE Spec2Model ----
(***************************************************************************)
(* Model of src/main.py: a Streamlit app that runs a multi-round human-AI  *)
(* policy decision experiment.  st.session_state is the record ss, the log *)
(* file experiment_log.csv is (log_exists, log_file), and every user event *)
(* (a button press, a chat message, an edit of the instruction field) is   *)
(* one action: the script run it triggers, followed by the passive script  *)
(* run that st.rerun() starts.                                             *)
(*                                                                         *)
(* Every text is a sequence of one-character strings, so that lower(),     *)
(* strip(), the substring test `kw in text`, str(int) and json.dumps are   *)
(* computed, not assumed.                                                  *)
(***************************************************************************)
EXTENDS Integers, Sequences, FiniteSets, TLC

VARIABLES
    ss,                \* st.session_state (session keys and widget values)
    log_exists,        \* whether LOG_CSV_PATH exists on disk
    log_file,          \* its content: a sequence of rows, each a sequence of fields
    scenario_csv,      \* the content of SCENARIO_CSV_PATH on disk
    participant_input, \* what the participant types as participant ID
    session,           \* history: number of "Start New Experiment" resets so far
    log_base,          \* history: Len(log_file) when the current session began
    updates,           \* history: catalog index -> number of update_team_memory
                       \*          calls made while that index was current
    decided_at,        \* history: catalog indices at which an option button set
                       \*          the decision while that index was current
    gateway,           \* history: the number of gateway calls, the message
                       \*          list of the last one and its response
    exchanged,         \* history: catalog index -> the chat turns exchanged
                       \*          while that index was current
    log_failed,        \* history: log_round has raised in the current session
    counters           \* history: optional events so far and rows written so far

vars ==
    <<ss, log_exists, log_file, scenario_csv, participant_input, session, log_base,
      updates, decided_at, gateway, exchanged, log_failed, counters>>

----------------------------------------------------------------------------
(* Bounds of the model *)

\* optional events over all sessions: chat messages, edits of the instruction
\* field and failed writes to the log file
MaxExtras == 1

\* rows in the log beyond which no further pass over the catalog is started
MaxRows == 2

\* edits of the instruction field in the specification SpecAdapt
MaxAdapt == 3

\* chat messages and edits of the instruction field in the specification SpecTalk
MaxTalk == 3

----------------------------------------------------------------------------
(* Texts *)

KW_short ==
    <<"s","h","o","r","t">>

KW_concise ==
    <<"c","o","n","c","i","s","e">>

KW_brief ==
    <<"b","r","i","e","f">>

KW_more_detail ==
    <<"m","o","r","e"," ","d","e","t","a","i","l">>

KW_longer ==
    <<"l","o","n","g","e","r">>

KW_explain_more ==
    <<"e","x","p","l","a","i","n"," ","m","o","r","e">>

KW_equity ==
    <<"e","q","u","i","t","y">>

KW_fairness ==
    <<"f","a","i","r","n","e","s","s">>

KW_fair ==
    <<"f","a","i","r">>

LEN_short ==
    <<"s","h","o","r","t">>

LEN_medium ==
    <<"m","e","d","i","u","m">>

LEN_long ==
    <<"l","o","n","g">>

ANONYMOUS ==
    <<"a","n","o","n","y","m","o","u","s">>

NO_CONTENT ==
    <<"[","A","I"," ","d","i","d"," ","n","o","t"," ","r","e","t","u","r","n",
       " ","a","n","y"," ","c","o","n","t","e","n","t",".","]">>

ERROR_PREFIX ==
    <<"[","E","r","r","o","r"," ","c","o","n","t","a","c","t","i","n","g"," ",
       "A","I"," ","t","e","a","m","m","a","t","e",":"," ">>

ROLE_participant ==
    <<"p","a","r","t","i","c","i","p","a","n","t">>

ROLE_ai ==
    <<"a","i">>

TxtFair ==
    <<"U","n","-","F","A","I","R">>

TxtLonger ==
    <<"L","o","n","g","e","r">>

TxtBriefLonger ==
    <<"b","r","i","e","f",","," ","l","o","n","g","e","r">>

TxtOk ==
    <<"o","k">>

TxtExample ==
    <<"p","l","e","a","s","e"," ","b","e"," ","c","o","n","c","i","s","e"," ",
       "a","n","d"," ","m","o","r","e"," ","e","q","u","i","t","y"," ","f",
       "o","c","u","s","e","d","\n">>

\* the value None of participant_id before Start (no text equals it)
NoneValue == <<"None">>

UpperChars ==
    <<"A","B","C","D","E","F","G","H","I","J","K","L","M",
      "N","O","P","Q","R","S","T","U","V","W","X","Y","Z">>

LowerChars ==
    <<"a","b","c","d","e","f","g","h","i","j","k","l","m",
      "n","o","p","q","r","s","t","u","v","w","x","y","z">>

DigitChars == <<"0","1","2","3","4","5","6","7","8","9">>

Whitespace == {" ", "\t", "\n"}

\* str.lower() on one character
LowerChar(c) ==
    IF \E i \in 1..26 : UpperChars[i] = c
    THEN LowerChars[CHOOSE i \in 1..26 : UpperChars[i] = c]
    ELSE c

\* str.lower()
Lower(text) == [i \in 1..Len(text) |-> LowerChar(text[i])]

\* the Python test `kw in text`
Contains(text, kw) ==
    \E i \in 0..(Len(text) - Len(kw)) : SubSeq(text, i + 1, i + Len(kw)) = kw

RECURSIVE LStrip(_)
LStrip(text) ==
    IF text # <<>> /\ Head(text) \in Whitespace THEN LStrip(Tail(text)) ELSE text

RECURSIVE RStrip(_)
RStrip(text) ==
    IF text # <<>> /\ text[Len(text)] \in Whitespace
    THEN RStrip(SubSeq(text, 1, Len(text) - 1))
    ELSE text

\* str.strip()
Strip(text) == RStrip(LStrip(text))

RECURSIVE NatToStr(_)
NatToStr(n) ==
    IF n < 10 THEN <<DigitChars[n + 1]>>
    ELSE NatToStr(n \div 10) \o <<DigitChars[(n % 10) + 1]>>

\* str(int), as csv.writer formats an integer field
IntToStr(n) == IF n < 0 THEN <<"-">> \o NatToStr(0 - n) ELSE NatToStr(n)

\* dict.get(key, default)
Get(d, k, default) == IF k \in DOMAIN d THEN d[k] ELSE default

\* d[k] = v
Put(d, k, v) == [x \in (DOMAIN d) \cup {k} |-> IF x = k THEN v ELSE d[x]]

\* the empty dict {}
EmptyDict == <<>>

----------------------------------------------------------------------------
(* json.dumps(chat_history, ensure_ascii=False) *)

JsonEscapeChar(c) ==
    IF c = "\"" THEN <<"\\", "\"">>
    ELSE IF c = "\\" THEN <<"\\", "\\">>
    ELSE IF c = "\n" THEN <<"\\", "n">>
    ELSE IF c = "\t" THEN <<"\\", "t">>
    ELSE <<c>>

RECURSIVE JsonEscape(_)
JsonEscape(text) ==
    IF text = <<>> THEN <<>>
    ELSE JsonEscapeChar(Head(text)) \o JsonEscape(Tail(text))

JsonString(text) == <<"\"">> \o JsonEscape(text) \o <<"\"">>

\* a (role, text) tuple is written as a two-element array
JsonTurn(turn) ==
    <<"[">> \o JsonString(turn[1]) \o <<",", " ">> \o JsonString(turn[2]) \o <<"]">>

RECURSIVE JsonTurns(_)
JsonTurns(history) ==
    IF history = <<>> THEN <<>>
    ELSE IF Len(history) = 1 THEN JsonTurn(history[1])
    ELSE JsonTurn(history[1]) \o <<",", " ">> \o JsonTurns(Tail(history))

json_dumps(history) == <<"[">> \o JsonTurns(history) \o <<"]">>

----------------------------------------------------------------------------
(* Input texts *)

SidS2 ==
    <<"S","2">>

SidS5 ==
    <<"S","5">>

SidD1 ==
    <<"D","1">>

SidD2 ==
    <<"D","2">>

TitleText ==
    <<"B","r","i","d","g","e">>

OptionsText ==
    <<"A","/","B","/","C","/","D">>

HumanMemo ==
    <<"u","n","i","o","n">>

AiMemo ==
    <<"l","o","a","d"," ","9","t">>

PidBlank ==
    <<" "," ">>

PidP7 ==
    <<" ","p","7"," ">>

MsgHi ==
    <<"h","i">>

ReplyText ==
    <<" ","G","o"," ","B","."," ">>

ReplyBlank ==
    <<" "," ">>

ErrDown ==
    <<"d","o","w","n">>

Timestamp1 ==
    <<"2","0","2","6","-","0","1","-","0","1"," ","1","0",":","0","0",":","0",
       "0">>

OldRowText ==
    <<"o","l","d","\n">>


\* what the participant may type into the instruction field
InstructionTexts == {<<>>, TxtFair, TxtExample}

\* the same, with every keyword family and their combinations
AdaptTexts == {<<>>, TxtFair, TxtLonger, TxtBriefLonger, TxtOk, TxtExample}

\* what the participant may type as participant ID
ParticipantInputs == {PidBlank, PidP7}

\* what the participant may type into the chat input
ChatMessages == {MsgHi}

\* what requests.post / raise_for_status / resp.json may produce
GatewayResponses ==
    { [kind |-> "reply", content |-> ReplyText],
      [kind |-> "reply", content |-> ReplyBlank],
      [kind |-> "error", content |-> ErrDown] }

\* what time.strftime may return
Timestamps == {Timestamp1}

OptionLabels == {"A", "B", "C", "D"}

----------------------------------------------------------------------------
(* Scenario files *)

Cell(s, e, c, p, t) ==
    [ok |-> TRUE, safety |-> s, equity |-> e, cost |-> c, political |-> p, total |-> t]

\* an outcome cell that parse_outcome_cell cannot parse
BadCell ==
    [ok |-> FALSE, safety |-> 0, equity |-> 0, cost |-> 0, political |-> 0, total |-> 0]

Row(round, sid, a, b, c, d) ==
    [round |-> round, scenario_id |-> sid, scenario_title |-> TitleText,
     options |-> OptionsText, human_private_info |-> HumanMemo,
     ai_private_info |-> AiMemo,
     option_A_outcome |-> a, option_B_outcome |-> b,
     option_C_outcome |-> c, option_D_outcome |-> d]

\* two rounds, unique round numbers with a gap, not in round order in the file
FileTwo ==
    << Row(<<"5">>, SidS5, Cell(1, 1, 1, 1, 4), Cell(2, 0, 1, 0, 3),
                           Cell(0, 0, 0, 0, 0), Cell(1, -1, 0, -2, -2)),
       Row(<<" ", "2">>, SidS2, Cell(2, 1, 2, 1, 6), Cell(1, 1, 0, 1, 3),
                           Cell(0, 2, 0, 0, 5), Cell(-1, 0, 0, 0, -1)) >>

\* two rows that carry the same round number
FileDup ==
    << Row(<<"1">>, SidD1, Cell(1, 1, 1, 1, 4), Cell(0, 1, 0, 0, 1),
                           Cell(0, 0, 1, 0, 2), Cell(0, 0, 0, 0, 0)),
       Row(<<"1">>, SidD2, Cell(2, 2, 2, 1, 7), Cell(1, 1, 1, 0, 3),
                           Cell(0, 0, 0, 0, 5), Cell(0, 0, 0, 0, 6)) >>

\* one round
FileOne ==
    << Row(<<"3">>, SidS5, Cell(1, 1, 1, 1, 4), Cell(2, 0, 1, 0, 3),
                           Cell(0, 0, 0, 0, 0), Cell(1, -1, 0, -2, -2)) >>

\* a header and no row
FileEmpty == <<>>

\* a row whose outcome cell is malformed
FileBad ==
    << Row(<<"1">>, SidD1, Cell(1, 1, 1, 1, 4), BadCell,
                           Cell(0, 0, 1, 0, 2), Cell(0, 0, 0, 0, 0)) >>

ScenarioFiles == {FileOne, FileTwo, FileDup, FileEmpty, FileBad}

----------------------------------------------------------------------------
(* CSV loading *)

DigitValue(c) == (CHOOSE i \in 1..10 : DigitChars[i] = c) - 1

IsDigits(text) ==
    /\ text # <<>>
    /\ \A i \in 1..Len(text) : \E d \in 1..10 : DigitChars[d] = text[i]

RECURSIVE DigitsToNat(_)
DigitsToNat(text) ==
    IF text = <<>> THEN 0
    ELSE 10 * DigitsToNat(SubSeq(text, 1, Len(text) - 1)) + DigitValue(text[Len(text)])

\* whether int(text) returns (it raises ValueError otherwise)
IntParses(text) ==
    LET s == Strip(text)
    IN  IF s # <<>> /\ Head(s) \in {"-", "+"} THEN IsDigits(Tail(s)) ELSE IsDigits(s)

\* int(text)
ParseInt(text) ==
    LET s == Strip(text)
    IN  IF Head(s) = "-" THEN 0 - DigitsToNat(Tail(s))
        ELSE IF Head(s) = "+" THEN DigitsToNat(Tail(s))
        ELSE DigitsToNat(s)

parse_outcome_cell(cell) ==
    [safety |-> cell.safety, equity |-> cell.equity, cost |-> cell.cost,
     political |-> cell.political, total |-> cell.total]

\* whether the loop body of load_scenarios raises on this row
RowRaises(row) ==
    \/ ~IntParses(row.round)
    \/ ~row.option_A_outcome.ok
    \/ ~row.option_B_outcome.ok
    \/ ~row.option_C_outcome.ok
    \/ ~row.option_D_outcome.ok

\* the Scenario built from one row
Scenario(row) ==
    [round_num |-> ParseInt(row.round),
     scenario_id |-> row.scenario_id,
     title |-> row.scenario_title,
     options_text |-> row.options,
     human_private_info |-> row.human_private_info,
     ai_private_info |-> row.ai_private_info,
     outcomes |-> [l \in OptionLabels |->
                     parse_outcome_cell(
                        IF l = "A" THEN row.option_A_outcome
                        ELSE IF l = "B" THEN row.option_B_outcome
                        ELSE IF l = "C" THEN row.option_C_outcome
                        ELSE row.option_D_outcome)]]

\* puts x behind every element whose key is not larger (list.sort is stable)
InsertByRound(sorted, x) ==
    LET k == Cardinality({i \in 1..Len(sorted) : sorted[i].round_num <= x.round_num})
    IN  SubSeq(sorted, 1, k) \o <<x>> \o SubSeq(sorted, k + 1, Len(sorted))

RECURSIVE SortByRound(_)
SortByRound(list) ==
    IF list = <<>> THEN <<>>
    ELSE InsertByRound(SortByRound(SubSeq(list, 1, Len(list) - 1)), list[Len(list)])

\* load_scenarios that skips the rows its loop body raises on
load_scenarios_lenient(file) ==
    LET good == SelectSeq(file, LAMBDA row : ~RowRaises(row))
    IN  [raised |-> FALSE,
         scenarios |-> SortByRound([i \in 1..Len(good) |-> Scenario(good[i])])]

\* load_scenarios(path): raised, or the scenarios sorted by round_num
load_scenarios(file) ==
    IF \E i \in 1..Len(file) : RowRaises(file[i])
    THEN [raised |-> TRUE, scenarios |-> <<>>]
    ELSE [raised |-> FALSE,
          scenarios |-> SortByRound([i \in 1..Len(file) |-> Scenario(file[i])])]

----------------------------------------------------------------------------
(* Team memory *)

\* TeamMemory()
TeamMemory ==
    [explanation_length |-> LEN_medium, focus_equity |-> FALSE, user_instructions |-> <<>>]

\* update_team_memory with a focus_equity that follows the last instruction
update_team_memory_unsticky(memory, instruction) ==
    LET text == Lower(instruction)
        m1 == [memory EXCEPT !.user_instructions = Append(@, instruction)]
        m2 == IF Contains(text, KW_short) \/ Contains(text, KW_concise)
                 \/ Contains(text, KW_brief)
              THEN [m1 EXCEPT !.explanation_length = LEN_short]
              ELSE IF Contains(text, KW_more_detail) \/ Contains(text, KW_longer)
                      \/ Contains(text, KW_explain_more)
              THEN [m1 EXCEPT !.explanation_length = LEN_long]
              ELSE m1
    IN  [m2 EXCEPT !.focus_equity =
            Contains(text, KW_equity) \/ Contains(text, KW_fairness)
            \/ Contains(text, KW_fair)]

\* update_team_memory with a final else branch that restores the default
update_team_memory_default(memory, instruction) ==
    LET text == Lower(instruction)
        m1 == [memory EXCEPT !.user_instructions = Append(@, instruction)]
        m2 == IF Contains(text, KW_short) \/ Contains(text, KW_concise)
                 \/ Contains(text, KW_brief)
              THEN [m1 EXCEPT !.explanation_length = LEN_short]
              ELSE IF Contains(text, KW_more_detail) \/ Contains(text, KW_longer)
                      \/ Contains(text, KW_explain_more)
              THEN [m1 EXCEPT !.explanation_length = LEN_long]
              ELSE [m1 EXCEPT !.explanation_length = LEN_medium]
    IN  IF Contains(text, KW_equity) \/ Contains(text, KW_fairness)
           \/ Contains(text, KW_fair)
        THEN [m2 EXCEPT !.focus_equity = TRUE]
        ELSE m2

\* update_team_memory with the two length branches in the other order
update_team_memory_swapped(memory, instruction) ==
    LET text == Lower(instruction)
        m1 == [memory EXCEPT !.user_instructions = Append(@, instruction)]
        m2 == IF Contains(text, KW_more_detail) \/ Contains(text, KW_longer)
                 \/ Contains(text, KW_explain_more)
              THEN [m1 EXCEPT !.explanation_length = LEN_long]
              ELSE IF Contains(text, KW_short) \/ Contains(text, KW_concise)
                      \/ Contains(text, KW_brief)
              THEN [m1 EXCEPT !.explanation_length = LEN_short]
              ELSE m1
    IN  IF Contains(text, KW_equity) \/ Contains(text, KW_fairness)
           \/ Contains(text, KW_fair)
        THEN [m2 EXCEPT !.focus_equity = TRUE]
        ELSE m2

update_team_memory(memory, instruction) ==
    LET text == Lower(instruction)
        m1 == [memory EXCEPT !.user_instructions = Append(@, instruction)]
        m2 == IF Contains(text, KW_short) \/ Contains(text, KW_concise)
                 \/ Contains(text, KW_brief)
              THEN [m1 EXCEPT !.explanation_length = LEN_short]
              ELSE IF Contains(text, KW_more_detail) \/ Contains(text, KW_longer)
                      \/ Contains(text, KW_explain_more)
              THEN [m1 EXCEPT !.explanation_length = LEN_long]
              ELSE m1
    IN  IF Contains(text, KW_equity) \/ Contains(text, KW_fairness)
           \/ Contains(text, KW_fair)
        THEN [m2 EXCEPT !.focus_equity = TRUE]
        ELSE m2

----------------------------------------------------------------------------
(* The AI teammate gateway *)

\* the except branch: f"[Error contacting AI teammate: {e}]"
ErrorMarker(e) == ERROR_PREFIX \o e \o <<"]">>

\* the texts generate_ai_reply builds the system prompt from; the en dash of
\* the three length directives is written "-"
PROMPT_HEAD ==
    <<"Y","o","u"," ","a","r","e"," ","a","n"," ","A","I"," ","p","o","l","i",
       "c","y"," ","t","e","a","m","m","a","t","e"," ","i","n"," ","a"," ",
       "r","e","s","e","a","r","c","h"," ","e","x","p","e","r","i","m","e",
       "n","t",".","\n","Y","o","u"," ","o","n","l","y"," ","s","e","e"," ",
       "t","h","e"," ","f","o","l","l","o","w","i","n","g"," ","*","t","e",
       "c","h","n","i","c","a","l"," ","m","e","m","o","*"," ","a","b","o",
       "u","t"," ","t","h","i","s"," ","s","c","e","n","a","r","i","o"," ",
       "a","n","d"," ","N","O","T"," ","t","h","e"," ","h","u","m","a","n",
       "'","s"," ","s","t","a","k","e","h","o","l","d","e","r"," ","m","e",
       "m","o",".","\n","\n","T","e","c","h","n","i","c","a","l"," ","m","e",
       "m","o",":","\n">>

PROMPT_ROLE ==
    <<"\n","\n","Y","o","u","r"," ","r","o","l","e",":","\n","-"," ","C","o",
       "l","l","a","b","o","r","a","t","e"," ","w","i","t","h"," ","t","h",
       "e"," ","h","u","m","a","n",".","\n","-"," ","O","f","f","e","r"," ",
       "r","e","a","s","o","n","i","n","g"," ","a","n","d"," ","t","r","a",
       "d","e","-","o","f","f","s"," ","b","e","t","w","e","e","n"," ","o",
       "p","t","i","o","n","s"," ","A","/","B","/","C","/","D",".","\n","-",
       " ","D","o"," ","N","O","T"," ","m","a","k","e"," ","t","h","e"," ",
       "f","i","n","a","l"," ","d","e","c","i","s","i","o","n",";"," ","t",
       "h","e"," ","h","u","m","a","n"," ","d","e","c","i","d","e","s",".",
       "\n","-"," ","B","e"," ","h","o","n","e","s","t"," ","t","h","a","t",
       " ","y","o","u"," ","o","n","l","y"," ","s","e","e"," ","t","e","c",
       "h","n","i","c","a","l"," ","d","a","t","a",".","\n">>

EQUITY_DIRECTIVE ==
    <<"\n","T","h","e"," ","h","u","m","a","n"," ","h","a","s"," ","a","s","k",
       "e","d"," ","y","o","u"," ","t","o"," ","p","a","y"," ","p","a","r",
       "t","i","c","u","l","a","r"," ","a","t","t","e","n","t","i","o","n",
       " ","t","o"," ","e","q","u","i","t","y"," ","a","n","d"," ","d","i",
       "s","t","r","i","b","u","t","i","o","n","a","l"," ","i","m","p","a",
       "c","t","s"," ","w","h","e","n"," ","r","e","l","e","v","a","n","t",
       ".","\n">>

SHORT_DIRECTIVE ==
    <<"\n","K","e","e","p"," ","r","e","p","l","i","e","s"," ","c","o","n","c",
       "i","s","e"," ","(","2","-","3"," ","s","e","n","t","e","n","c","e",
       "s",")",".","\n">>

LONG_DIRECTIVE ==
    <<"\n","G","i","v","e"," ","m","o","r","e"," ","d","e","t","a","i","l","e",
       "d"," ","r","e","a","s","o","n","i","n","g"," ","(","4","-","6"," ",
       "s","e","n","t","e","n","c","e","s",")",".","\n">>

MODERATE_DIRECTIVE ==
    <<"\n","U","s","e"," ","a"," ","m","o","d","e","r","a","t","e"," ","l","e",
       "v","e","l"," ","o","f"," ","d","e","t","a","i","l"," ","(","3","-",
       "4"," ","s","e","n","t","e","n","c","e","s",")",".","\n">>

API_system ==
    <<"s","y","s","t","e","m">>

API_user ==
    <<"u","s","e","r">>

API_assistant ==
    <<"a","s","s","i","s","t","a","n","t">>

MsgWhy ==
    <<"w","h","y","?">>

LenOther ==
    <<"t","i","n","y">>

\* system_prompt that appends the length directive before the equity directive
system_prompt_length_first(scenario, team_memory) ==
    LET base == PROMPT_HEAD \o scenario.ai_private_info \o PROMPT_ROLE
        with_length ==
            IF team_memory.explanation_length = LEN_short
            THEN base \o SHORT_DIRECTIVE
            ELSE IF team_memory.explanation_length = LEN_long
            THEN base \o LONG_DIRECTIVE
            ELSE base \o MODERATE_DIRECTIVE
    IN  IF team_memory.focus_equity THEN with_length \o EQUITY_DIRECTIVE
        ELSE with_length

\* system_prompt of generate_ai_reply
system_prompt(scenario, team_memory) ==
    LET base == PROMPT_HEAD \o scenario.ai_private_info \o PROMPT_ROLE
        with_equity == IF team_memory.focus_equity THEN base \o EQUITY_DIRECTIVE
                       ELSE base
    IN  IF team_memory.explanation_length = LEN_short
        THEN with_equity \o SHORT_DIRECTIVE
        ELSE IF team_memory.explanation_length = LEN_long
        THEN with_equity \o LONG_DIRECTIVE
        ELSE with_equity \o MODERATE_DIRECTIVE

\* mapped_role of generate_ai_reply
mapped_role(role) == IF role = ROLE_participant THEN API_user ELSE API_assistant

\* messages of generate_ai_reply: what the payload sent to the gateway holds
messages(scenario, team_memory, chat_history, user_message) ==
    <<[role |-> API_system, content |-> system_prompt(scenario, team_memory)]>>
    \o [i \in 1..Len(chat_history) |->
           [role |-> mapped_role(chat_history[i][1]), content |-> chat_history[i][2]]]
    \o <<[role |-> API_user, content |-> user_message]>>

\* generate_ai_reply with an except branch that returns the bare exception text
generate_ai_reply_bare(scenario, team_memory, chat_history, user_message, response) ==
    LET ai_text == Strip(response.content)
    IN  IF ai_text = <<>> THEN NO_CONTENT ELSE ai_text

\* generate_ai_reply, given what the HTTP exchange produced
generate_ai_reply(scenario, team_memory, chat_history, user_message, response) ==
    IF response.kind = "error" THEN ErrorMarker(response.content)
    ELSE LET ai_text == Strip(response.content)
         IN  IF ai_text = <<>> THEN NO_CONTENT ELSE ai_text

----------------------------------------------------------------------------
(* The log file *)

LOG_HEADER ==
    << <<"t","i","m","e","s","t","a","m","p">>,
       <<"p","a","r","t","i","c","i","p","a","n","t","_","i","d">>,
       <<"r","o","u","n","d","_","n","u","m">>,
       <<"s","c","e","n","a","r","i","o","_","i","d">>,
       <<"c","h","o","i","c","e">>,
       <<"s","a","f","e","t","y">>,
       <<"e","q","u","i","t","y">>,
       <<"c","o","s","t">>,
       <<"p","o","l","i","t","i","c","a","l">>,
       <<"t","o","t","a","l">>,
       <<"c","h","a","t","_","h","i","s","t","o","r","y","_","j","s","o","n">>,
       <<"i","n","s","t","r","u","c","t","i","o","n","_","t","e","x","t">> >>

\* the file before the program starts: absent, or holding one line that is
\* not the header
InitialLogFiles ==
    { [exists |-> FALSE, rows |-> <<>>],
      [exists |-> TRUE,  rows |-> << <<OldRowText>> >>] }

\* init_log that opens the file with mode "w"
init_log_truncating(exists, rows, writable) ==
    IF ~writable THEN [raised |-> TRUE, exists |-> exists, rows |-> rows]
    ELSE [raised |-> FALSE, exists |-> TRUE, rows |-> <<LOG_HEADER>>]

\* init_log that writes the header to an existing file as well
init_log_reheader(exists, rows, writable) ==
    IF exists THEN [raised |-> FALSE, exists |-> TRUE, rows |-> Append(rows, LOG_HEADER)]
    ELSE IF ~writable THEN [raised |-> TRUE, exists |-> FALSE, rows |-> rows]
    ELSE [raised |-> FALSE, exists |-> TRUE, rows |-> <<LOG_HEADER>>]

\* init_log(path); writable = FALSE is an OSError other than FileExistsError
init_log(exists, rows, writable) ==
    IF exists THEN [raised |-> FALSE, exists |-> TRUE, rows |-> rows]
    ELSE IF ~writable THEN [raised |-> TRUE, exists |-> FALSE, rows |-> rows]
    ELSE [raised |-> FALSE, exists |-> TRUE, rows |-> <<LOG_HEADER>>]

\* the row of a log_round that writes choice.lower()
LogRow_lower(timestamp, participant_id, scenario, choice, outcome, chat_history, instruction_text) ==
    << timestamp, participant_id, IntToStr(scenario.round_num), scenario.scenario_id,
       Lower(<<choice>>), IntToStr(outcome.safety), IntToStr(outcome.equity),
       IntToStr(outcome.cost), IntToStr(outcome.political), IntToStr(outcome.total),
       json_dumps(chat_history), instruction_text >>

\* the row log_round writes
LogRow(timestamp, participant_id, scenario, choice, outcome, chat_history, instruction_text) ==
    << timestamp, participant_id, IntToStr(scenario.round_num), scenario.scenario_id,
       <<choice>>, IntToStr(outcome.safety), IntToStr(outcome.equity),
       IntToStr(outcome.cost), IntToStr(outcome.political), IntToStr(outcome.total),
       json_dumps(chat_history), instruction_text >>

\* log_round that writes the row twice
log_round_twice(exists, rows, writable, row) ==
    IF ~writable THEN [raised |-> TRUE, exists |-> exists, rows |-> rows]
    ELSE [raised |-> FALSE, exists |-> TRUE, rows |-> Append(Append(rows, row), row)]

\* log_round(...): open(log_path, "a") raises when the file is not writable
log_round(exists, rows, writable, row) ==
    IF ~writable THEN [raised |-> TRUE, exists |-> exists, rows |-> rows]
    ELSE [raised |-> FALSE, exists |-> TRUE, rows |-> Append(rows, row)]

----------------------------------------------------------------------------
(* Session state *)

\* st.session_state after init_session_state() on an empty session;
\* widgets holds the value of each instruction field the last run rendered
InitialSessionState ==
    [participant_id      |-> NoneValue,
     scenarios           |-> <<>>,
     current_round       |-> 0,
     team_memory         |-> TeamMemory,
     total_score         |-> 0,
     chat_histories      |-> EmptyDict,
     decisions           |-> EmptyDict,
     instructions        |-> EmptyDict,
     show_outcome        |-> EmptyDict,
     experiment_started  |-> FALSE,
     experiment_complete |-> FALSE,
     widgets             |-> EmptyDict]

\* main() shows the welcome page
WelcomePage(s) == ~s.experiment_started

\* main() or render_scenario_page() shows the completion page
CompletionPage(s) ==
    /\ s.experiment_started
    /\ \/ s.experiment_complete
       \/ s.scenarios # <<>> /\ s.current_round >= Len(s.scenarios)

\* render_scenario_page() gets past its two early returns
ScenarioShown(s) ==
    /\ s.experiment_started
    /\ ~s.experiment_complete
    /\ s.scenarios # <<>>
    /\ s.current_round < Len(s.scenarios)

\* st.session_state.scenarios[st.session_state.current_round]
CurrentScenario(s) == s.scenarios[s.current_round + 1]

\* the chat and decision interfaces are shown
ChatPage(s) ==
    ScenarioShown(s) /\ CurrentScenario(s).round_num \notin DOMAIN s.decisions

\* the outcome display is shown
OutcomePage(s) ==
    ScenarioShown(s) /\ CurrentScenario(s).round_num \in DOMAIN s.decisions

\* what st.text_input(value=..., key=f"instruction_{round_num}") returns: the
\* field's value if the last run rendered it, else the value= argument
WidgetValue(s, round_num) ==
    IF round_num \in DOMAIN s.widgets THEN s.widgets[round_num]
    ELSE Get(s.instructions, round_num, <<>>)

\* render_chat_interface up to the chat input: the round's history is created
render_chat_interface(s, scenario) ==
    [s EXCEPT !.chat_histories =
                  IF scenario.round_num \in DOMAIN @ THEN @
                  ELSE Put(@, scenario.round_num, <<>>),
              !.widgets = EmptyDict]

\* render_outcome_display up to the Continue button: the instruction field
\* is read and, if it is not empty, stored and applied to the team memory
render_outcome_display(s, scenario) ==
    LET instruction_text == WidgetValue(s, scenario.round_num)
        s1 == [s EXCEPT !.widgets = Put(EmptyDict, scenario.round_num, instruction_text)]
    IN  IF instruction_text # <<>>
        THEN [s1 EXCEPT !.instructions = Put(@, scenario.round_num, instruction_text),
                        !.team_memory = update_team_memory(@, instruction_text)]
        ELSE s1

\* render_scenario_page with no button pressed and no chat input
render_scenario_page(s) ==
    IF ~ScenarioShown(s) THEN [s EXCEPT !.widgets = EmptyDict]
    ELSE IF CurrentScenario(s).round_num \in DOMAIN s.decisions
    THEN render_outcome_display(s, CurrentScenario(s))
    ELSE render_chat_interface(s, CurrentScenario(s))

\* main() whose init_session_state assigns team_memory in every script run
main_reinit(s) ==
    IF ~s.experiment_started THEN [s EXCEPT !.widgets = EmptyDict]
    ELSE IF s.experiment_complete THEN [s EXCEPT !.widgets = EmptyDict]
    ELSE render_scenario_page([s EXCEPT !.team_memory = TeamMemory])

\* main(): one script run in which no widget fires, as st.rerun() starts it
main(s) ==
    IF ~s.experiment_started THEN [s EXCEPT !.widgets = EmptyDict]
    ELSE IF s.experiment_complete THEN [s EXCEPT !.widgets = EmptyDict]
    ELSE render_scenario_page(s)

\* the whole chat_history, the just-appended message included
PriorTurns_all(chat_history) == chat_history

\* chat_history[:-1], the history render_chat_interface hands to generate_ai_reply
PriorTurns(chat_history) == SubSeq(chat_history, 1, Len(chat_history) - 1)

\* an append that leaves out the empty-reply sentinel
AppendTurn_unless_empty(chat_history, role, content) ==
    IF content = NO_CONTENT THEN chat_history
    ELSE Append(chat_history, <<role, content>>)

\* chat_history.append((role, content))
AppendTurn(chat_history, role, content) == Append(chat_history, <<role, content>>)

\* the test written with > for >=
CatalogExhausted_past(current_round, scenarios) == current_round > Len(scenarios)

\* the test after current_round += 1 that sets experiment_complete
CatalogExhausted(current_round, scenarios) == current_round >= Len(scenarios)

\* whether the script run main(s) calls update_team_memory
CallsUpdate(s) ==
    OutcomePage(s) /\ WidgetValue(s, CurrentScenario(s).round_num) # <<>>

\* updates with one more call counted for the catalog index
Counted(u, index, called) ==
    IF called THEN Put(u, index, Get(u, index, 0) + 1) ELSE u

NoResponse == [kind |-> "none", content |-> <<>>]

----------------------------------------------------------------------------
(* Initial state *)

Init ==
    /\ ss = InitialSessionState
    /\ \E f \in InitialLogFiles :
          /\ log_exists = f.exists
          /\ log_file = f.rows
          /\ log_base = Len(f.rows)
    /\ scenario_csv \in ScenarioFiles
    /\ participant_input \in ParticipantInputs
    /\ session = 0
    /\ updates = EmptyDict
    /\ decided_at = {}
    /\ gateway = [calls |-> 0, request |-> <<>>, last |-> NoResponse]
    /\ exchanged = EmptyDict
    /\ log_failed = FALSE
    /\ counters = [extras |-> 0, rows |-> 0]

----------------------------------------------------------------------------
(* Events.  limit bounds the optional events: an action that is one is      *)
(* enabled while counters.extras < limit.                                   *)

\* render_welcome_page: "Start Experiment" is pressed
StartExperiment(writable, limit) ==
    /\ WelcomePage(ss)
    /\ writable \/ counters.extras < limit
    /\ LET pid == IF Strip(participant_input) # <<>> THEN Strip(participant_input)
                  ELSE ANONYMOUS
           s0 == [ss EXCEPT !.participant_id = pid]
           loaded == load_scenarios(scenario_csv)
           s1 == [s0 EXCEPT !.scenarios = loaded.scenarios]
           made == init_log(log_exists, log_file, writable)
           s2 == [s1 EXCEPT !.experiment_started = TRUE, !.current_round = 0]
       IN  IF loaded.raised
           THEN /\ ss' = s0
                /\ UNCHANGED <<log_exists, log_file, log_base, counters>>
           ELSE IF made.raised
           THEN /\ ss' = s1
                /\ counters' = [counters EXCEPT !.extras = @ + 1]
                /\ UNCHANGED <<log_exists, log_file, log_base>>
           ELSE /\ ss' = main(s2)
                /\ log_exists' = made.exists
                /\ log_file' = made.rows
                /\ log_base' = Len(made.rows)
                /\ UNCHANGED counters
    /\ UNCHANGED <<scenario_csv, participant_input, session, updates, decided_at,
                   gateway, exchanged, log_failed>>

\* render_chat_interface: a chat message is entered
SendMessage(user_message, response, limit) ==
    /\ ChatPage(ss)
    /\ counters.extras < limit
    /\ LET scenario == CurrentScenario(ss)
           rn == scenario.round_num
           s0 == render_chat_interface(ss, scenario)
           h1 == AppendTurn(s0.chat_histories[rn], ROLE_participant, user_message)
           ai_reply == generate_ai_reply(scenario, s0.team_memory, PriorTurns(h1),
                                         user_message, response)
           h2 == AppendTurn(h1, ROLE_ai, ai_reply)
           s1 == [s0 EXCEPT !.chat_histories = Put(@, rn, h2)]
       IN  /\ ss' = main(s1)
           /\ gateway' = [calls   |-> gateway.calls + 1,
                          request |-> messages(scenario, s0.team_memory,
                                               PriorTurns(h1), user_message),
                          last    |-> response]
           /\ exchanged' = Put(exchanged, ss.current_round,
                               Get(exchanged, ss.current_round, <<>>)
                               \o << <<ROLE_participant, user_message>>,
                                     <<ROLE_ai, ai_reply>> >>)
    /\ counters' = [counters EXCEPT !.extras = @ + 1]
    /\ UNCHANGED <<log_exists, log_file, scenario_csv, participant_input, session,
                   log_base, updates, decided_at, log_failed>>

\* render_decision_interface: one of the four option buttons is pressed
ChooseOption(label) ==
    /\ ChatPage(ss)
    /\ LET scenario == CurrentScenario(ss)
           rn == scenario.round_num
           s0 == render_chat_interface(ss, scenario)
           s1 == IF rn \notin DOMAIN s0.decisions
                 THEN [s0 EXCEPT !.decisions = Put(@, rn, label),
                                 !.total_score = @ + scenario.outcomes[label].total]
                 ELSE s0
       IN  /\ ss' = main(s1)
           /\ updates' = Counted(updates, ss.current_round, CallsUpdate(s1))
           /\ decided_at' = IF rn \notin DOMAIN s0.decisions
                            THEN decided_at \cup {ss.current_round}
                            ELSE decided_at
    /\ UNCHANGED <<log_exists, log_file, scenario_csv, participant_input, session,
                   log_base, gateway, exchanged, log_failed, counters>>

\* render_outcome_display: the instruction field is edited
EditInstruction(text, limit) ==
    /\ OutcomePage(ss)
    /\ counters.extras < limit
    /\ text # WidgetValue(ss, CurrentScenario(ss).round_num)
    /\ LET scenario == CurrentScenario(ss)
           s0 == [ss EXCEPT !.widgets = Put(@, scenario.round_num, text)]
       IN  /\ ss' = render_outcome_display(s0, scenario)
           /\ updates' = Counted(updates, ss.current_round, CallsUpdate(s0))
    /\ counters' = [counters EXCEPT !.extras = @ + 1]
    /\ UNCHANGED <<log_exists, log_file, scenario_csv, participant_input, session,
                   log_base, decided_at, gateway, exchanged, log_failed>>

\* render_outcome_display: "Continue to Next Round" is pressed.  The state
\* after the outcome display, the row and the state handed to the next
\* script run are bound by \E over a one-element set, which has TLC
\* compute each of them once.
ContinueToNextRound(timestamp, writable, limit) ==
    /\ OutcomePage(ss)
    /\ writable \/ counters.extras < limit
    /\ LET scenario == CurrentScenario(ss)
           rn == scenario.round_num
           choice == ss.decisions[rn]
           outcome == scenario.outcomes[choice]
           u1 == Counted(updates, ss.current_round, CallsUpdate(ss))
       IN  \E s1 \in {render_outcome_display(ss, scenario)} :
           \E row \in {LogRow(timestamp, s1.participant_id, scenario, choice, outcome,
                              Get(s1.chat_histories, rn, <<>>),
                              Get(s1.instructions, rn, <<>>))} :
           \E s2 \in {[s1 EXCEPT !.current_round = @ + 1,
                                 !.experiment_complete =
                                     IF CatalogExhausted(s1.current_round + 1,
                                                         s1.scenarios)
                                     THEN TRUE ELSE @]} :
               LET written == log_round(log_exists, log_file, writable, row)
               IN  IF written.raised
                   THEN /\ ss' = s1
                        /\ updates' = u1
                        /\ counters' = [counters EXCEPT !.extras = @ + 1]
                        /\ log_failed' = TRUE
                        /\ UNCHANGED <<log_exists, log_file>>
                   ELSE /\ ss' = main(s2)
                        /\ updates' = Counted(u1, s2.current_round, CallsUpdate(s2))
                        /\ counters' = [counters EXCEPT !.rows = @ + 1]
                        /\ log_exists' = written.exists
                        /\ log_file' = written.rows
                        /\ UNCHANGED log_failed
    /\ UNCHANGED <<scenario_csv, participant_input, session, log_base, decided_at,
                   gateway, exchanged>>

\* render_completion_page: "Start New Experiment" is pressed
StartNewExperiment ==
    /\ CompletionPage(ss)
    /\ counters.rows + Len(ss.scenarios) <= MaxRows
    /\ ss' = main(InitialSessionState)
    /\ session' = session + 1
    /\ log_base' = Len(log_file)
    /\ updates' = EmptyDict
    /\ decided_at' = {}
    /\ exchanged' = EmptyDict
    /\ log_failed' = FALSE
    /\ UNCHANGED <<log_exists, log_file, scenario_csv, participant_input, gateway,
                   counters>>

Next ==
    \/ \E w \in BOOLEAN : StartExperiment(w, MaxExtras)
    \/ \E m \in ChatMessages, r \in GatewayResponses : SendMessage(m, r, MaxExtras)
    \/ \E l \in OptionLabels : ChooseOption(l)
    \/ \E t \in InstructionTexts : EditInstruction(t, MaxExtras)
    \/ \E t \in Timestamps, w \in BOOLEAN : ContinueToNextRound(t, w, MaxExtras)
    \/ StartNewExperiment

Spec == Init /\ [][Next]_vars

----------------------------------------------------------------------------
(* The adaptation step on its own: one participant, a two-round catalog, no *)
(* chat and no failing write, and up to MaxAdapt edits of the instruction   *)
(* field drawn from AdaptTexts.                                             *)

InitAdapt ==
    /\ Init
    /\ scenario_csv = FileTwo
    /\ participant_input = PidP7
    /\ ~log_exists

NextAdapt ==
    \/ StartExperiment(TRUE, 0)
    \/ \E l \in OptionLabels : ChooseOption(l)
    \/ \E t \in AdaptTexts : EditInstruction(t, MaxAdapt)
    \/ \E t \in Timestamps : ContinueToNextRound(t, TRUE, 0)

SpecAdapt == InitAdapt /\ [][NextAdapt]_vars

----------------------------------------------------------------------------
(* The conversation on its own: one participant, a two-round catalog, no    *)
(* failing write, one option button, and up to MaxTalk chat messages and edits of the          *)
(* instruction field, so that several messages are exchanged in one round   *)
(* and a round is talked through with a team memory an earlier round set.   *)

\* what the participant may type into the chat input
TalkMessages == {MsgHi, MsgWhy}

\* the option button the participant presses
TalkLabels == {"B"}

InitTalk ==
    /\ Init
    /\ scenario_csv = FileTwo
    /\ participant_input = PidP7
    /\ ~log_exists

NextTalk ==
    \/ StartExperiment(TRUE, 0)
    \/ \E m \in TalkMessages, r \in GatewayResponses : SendMessage(m, r, MaxTalk)
    \/ \E l \in TalkLabels : ChooseOption(l)
    \/ \E t \in InstructionTexts : EditInstruction(t, MaxTalk)
    \/ \E t \in Timestamps : ContinueToNextRound(t, TRUE, 0)

SpecTalk == InitTalk /\ [][NextTalk]_vars

----------------------------------------------------------------------------
(* A participant who keeps going: whenever an option button can be pressed  *)
(* one eventually is, and whenever Continue can be pressed it eventually is *)
(* pressed with the log file writable.  Both buttons stay on the page until *)
(* they are pressed, so weak fairness describes this participant.           *)

Decides == \E l \in OptionLabels : ChooseOption(l)

ContinuesLogged == \E t \in Timestamps : ContinueToNextRound(t, TRUE, MaxExtras)

SpecLive == Init /\ [][Next]_vars /\ WF_vars(Decides) /\ WF_vars(ContinuesLogged)

----------------------------------------------------------------------------
(* Properties *)

\* the rows the current session has written
SessionRows == SubSeq(log_file, log_base + 1, Len(log_file))

\* the choice written in a row, as an option label
RowChoice(row) == row[5][1]

RowIsFor(row, scenario) ==
    /\ row[3] = IntToStr(scenario.round_num)
    /\ row[4] = scenario.scenario_id

\* the records written by this session are those of scenarios 0..current_round-1
RecordsFollowCatalog ==
    /\ Len(SessionRows) = ss.current_round
    /\ ss.current_round <= Len(ss.scenarios)
    /\ \A i \in 1..ss.current_round : RowIsFor(SessionRows[i], ss.scenarios[i])

\* a step inside a session leaves the index and the log alone, or appends one
\* row for the scenario at the current index and advances the index by one
OneRecordPerAdvance ==
    (session' = session /\ ss.experiment_started /\ ss'.experiment_started) =>
        \/ ss'.current_round = ss.current_round /\ log_file' = log_file
        \/ /\ ss'.current_round = ss.current_round + 1
           /\ ss.current_round < Len(ss.scenarios)
           /\ Len(log_file') = Len(log_file) + 1
           /\ SubSeq(log_file', 1, Len(log_file)) = log_file
           /\ RowIsFor(log_file'[Len(log_file')], CurrentScenario(ss))

\* C1: within one session the rounds are processed exactly once and in
\* catalog order: every advance of the round index appends exactly one record,
\* for the scenario at the current index, and at every reachable state the
\* records of the session are those of scenarios 0..current_round-1 in order.
C1_RoundsInCatalogOrder ==
    [](IF ss.experiment_started THEN RecordsFollowCatalog ELSE SessionRows = <<>>)
    /\ [][OneRecordPerAdvance]_vars

\* both rounds of the two-round catalog are logged, in round order although
\* the file lists them in the other order
C1_Witness ==
    /\ scenario_csv = FileTwo
    /\ ss.experiment_complete
    /\ ss.current_round = 2
    /\ Len(SessionRows) = 2
    /\ SessionRows[1][4] = SidS2
    /\ SessionRows[2][4] = SidS5

\* a recorded choice of the session is never changed
ChoiceKept ==
    (session' = session) =>
        \A rn \in DOMAIN ss.decisions :
            rn \in DOMAIN ss'.decisions /\ ss'.decisions[rn] = ss.decisions[rn]

\* every logged round had its decision taken while it was the current round
LoggedRoundsDecided ==
    \A i \in 0..(ss.current_round - 1) : i \in decided_at

\* C2: at most one decision is taken per round: a recorded choice is never
\* changed by a later event, and every round that is logged has had its own
\* decision taken through the decision interface while it was current.
C2_OneDecisionPerRound ==
    [](ss.experiment_started => LoggedRoundsDecided) /\ [][ChoiceKept]_vars

RECURSIVE LoggedTotal(_)
\* the sum of outcome.total over the first n records of the session, each
\* with the scenario of its round and the choice written in it
LoggedTotal(n) ==
    IF n = 0 THEN 0
    ELSE LoggedTotal(n - 1)
         + ss.scenarios[n].outcomes[RowChoice(SessionRows[n])].total

\* the total of the current round's chosen outcome, if it is decided
CurrentTotal ==
    IF OutcomePage(ss)
    THEN CurrentScenario(ss).outcomes[ss.decisions[CurrentScenario(ss).round_num]].total
    ELSE 0

\* C3: the cumulative score equals the sum of outcome.total over the rounds
\* logged so far plus the total of the current round's chosen outcome if that
\* round is decided.
C3_ScoreIsSumOfTotals ==
    ss.experiment_started =>
        ss.total_score = LoggedTotal(ss.current_round) + CurrentTotal

\* C4: update_team_memory is applied at most once while a round is current.
C4_OneMemoryUpdatePerRound ==
    \A i \in DOMAIN updates : updates[i] <= 1

\* the three keyword families, as tests on an instruction text
HasShorten(text) ==
    \E kw \in {KW_short, KW_concise, KW_brief} : Contains(Lower(text), kw)

HasLengthen(text) ==
    \E kw \in {KW_more_detail, KW_longer, KW_explain_more} : Contains(Lower(text), kw)

HasEquity(text) ==
    \E kw \in {KW_equity, KW_fairness, KW_fair} : Contains(Lower(text), kw)

\* the instructions applied so far in the session
Applied == ss.team_memory.user_instructions

\* C5: focus_equity is sticky: once an instruction with an equity keyword has
\* been applied it is true, and it stays true after every later instruction
\* of the session.
C5_FocusEquitySticky ==
    []((\E i \in 1..Len(Applied) : HasEquity(Applied[i])) => ss.team_memory.focus_equity)
    /\ [][(ss.team_memory.focus_equity /\ session' = session)
             => ss'.team_memory.focus_equity]_vars

\* "Un-FAIR" was applied and an instruction with no keyword after it
C5_Witness ==
    /\ Len(Applied) >= 2
    /\ Applied[1] = TxtFair
    /\ Applied[Len(Applied)] = TxtOk
    /\ ss.team_memory.focus_equity

\* C6: explanation_length is one of short, medium, long; it is medium exactly
\* while no shorten or lengthen instruction has been applied, and once it has
\* left medium no instruction of the session sets it back.
C6_LengthRatchet ==
    [](/\ ss.team_memory.explanation_length \in {LEN_short, LEN_medium, LEN_long}
       /\ (ss.team_memory.explanation_length = LEN_medium)
            <=> (\A i \in 1..Len(Applied) :
                    ~HasShorten(Applied[i]) /\ ~HasLengthen(Applied[i])))
    /\ [][(ss.team_memory.explanation_length # LEN_medium /\ session' = session)
             => ss'.team_memory.explanation_length # LEN_medium]_vars

\* a lengthen instruction, then one with no keyword: the length stays long
C6_Witness ==
    /\ Len(Applied) >= 2
    /\ Applied[1] = TxtLonger
    /\ Applied[Len(Applied)] = TxtOk
    /\ ss.team_memory.explanation_length = LEN_long

\* what the claim says update_team_memory returns
MemoryAfter(memory, text) ==
    [user_instructions |-> Append(memory.user_instructions, text),
     explanation_length |->
         IF HasShorten(text) THEN LEN_short
         ELSE IF HasLengthen(text) THEN LEN_long
         ELSE memory.explanation_length,
     focus_equity |-> IF HasEquity(text) THEN TRUE ELSE memory.focus_equity]

\* an edit of the instruction field to a text that is not empty applies
\* update_team_memory once, to the text now in the field
EditAppliesText ==
    (counters'.extras = counters.extras + 1
       /\ ss'.widgets[CurrentScenario(ss).round_num] # <<>>) =>
        ss'.team_memory =
            MemoryAfter(ss.team_memory, ss'.widgets[CurrentScenario(ss).round_num])

\* C7: update_team_memory appends the raw text as the last entry, sets the
\* length to short on a shorten keyword, else to long on a lengthen keyword,
\* else keeps it, and sets focus_equity on an equity keyword, else keeps it;
\* "please be concise and more equity focused" gives short and focus_equity.
C7_UpdateTeamMemory ==
    []((Applied # <<>> /\ Applied[Len(Applied)] = TxtExample) =>
          /\ ss.team_memory.explanation_length = LEN_short
          /\ ss.team_memory.focus_equity)
    /\ [][EditAppliesText]_vars

\* the length was long, and an instruction with a keyword of both length
\* families made it short
C7_Witness ==
    /\ Len(Applied) = 2
    /\ Applied[1] = TxtLonger
    /\ Applied[2] = TxtBriefLonger
    /\ ss.team_memory.explanation_length = LEN_short
    /\ ~ss.team_memory.focus_equity

\* the current round's chat history
CurrentHistory(s) == Get(s.chat_histories, CurrentScenario(s).round_num, <<>>)

\* a chat exchange whose gateway call failed
FailedExchange ==
    (gateway'.calls = gateway.calls + 1 /\ gateway'.last.kind = "error") =>
        LET old == CurrentHistory(ss)
            new == CurrentHistory(ss')
        IN  /\ Len(new) = Len(old) + 2
            /\ SubSeq(new, 1, Len(old)) = old
            /\ new[Len(old) + 1][1] = ROLE_participant
            /\ new[Len(old) + 1][2] \in ChatMessages
            /\ new[Len(old) + 2] = <<ROLE_ai, ErrorMarker(gateway'.last.content)>>
            /\ ss'.total_score = ss.total_score
            /\ ss'.team_memory = ss.team_memory
            /\ ss'.current_round = ss.current_round
            /\ ss'.decisions = ss.decisions
            /\ log_exists' = log_exists
            /\ log_file' = log_file
            /\ ChatPage(ss')

\* C8: a gateway call that fails does not abort the round or the session: the
\* participant turn and an ai turn holding the error marker are added, the
\* score, the team memory, the round index and the log are unchanged, and the
\* chat and decision interfaces are still shown.
C8_GatewayFailureRecovered == [][FailedExchange]_vars

\* after a failed exchange the round was decided and logged with both turns
C8_Witness ==
    /\ gateway.last.kind = "error"
    /\ counters.rows >= 1
    /\ \E rn \in DOMAIN ss.chat_histories :
          /\ Len(ss.chat_histories[rn]) = 2
          /\ ss.chat_histories[rn][2] = <<ROLE_ai, ErrorMarker(ErrDown)>>
          /\ rn \in DOMAIN ss.decisions
          /\ \E i \in 1..Len(SessionRows) :
                SessionRows[i][11] = json_dumps(ss.chat_histories[rn])

\* C9: the log is append-only: once the file exists it keeps existing, and
\* every step keeps the rows already in it, unchanged and in the same order,
\* adding rows only at the end.
C9_LogAppendOnly ==
    [][log_exists =>
          /\ log_exists'
          /\ Len(log_file') >= Len(log_file)
          /\ SubSeq(log_file', 1, Len(log_file)) = log_file]_vars

\* a second session, started on the file the first one wrote, has appended a
\* row behind the rows of the first
C9_Witness ==
    /\ session = 1
    /\ ss.experiment_started
    /\ log_base >= 2
    /\ Len(log_file) = log_base + 1

\* the step in which "Start Experiment" succeeds, which calls init_log
StartCreatesOrKeeps ==
    (~ss.experiment_started /\ ss'.experiment_started) =>
        /\ log_exists'
        /\ IF log_exists THEN log_file' = log_file
           ELSE log_file' = <<LOG_HEADER>> /\ Len(log_file'[1]) = 12

\* init_log applied to its own result changes nothing
InitLogTwice ==
    LET once == init_log(log_exists, log_file, TRUE)
    IN  init_log(once.exists, once.rows, TRUE) = once

\* C10: init_log is idempotent: on an absent file it creates exactly the
\* 12-column header row, on an existing file it changes nothing, whatever the
\* file holds, so calling it again never alters or duplicates the header.
C10_InitLogIdempotent == []InitLogTwice /\ [][StartCreatesOrKeeps]_vars

\* init_log created the file in the first session and was called again at the
\* start of the second: the file still holds one header row, the first
C10_Witness ==
    /\ session = 1
    /\ ss.experiment_started
    /\ log_file[1] = LOG_HEADER
    /\ Cardinality({i \in 1..Len(log_file) : log_file[i] = LOG_HEADER}) = 1


\* the rows of the log file that log_round wrote, in any session
WrittenRows ==
    { log_file[i] : i \in { j \in 1..Len(log_file) :
                              Len(log_file[j]) = Len(LOG_HEADER)
                              /\ log_file[j] # LOG_HEADER } }

\* every recorded decision and every logged choice is one of the four labels
ChoicesAreLabels ==
    /\ \A rn \in DOMAIN ss.decisions : ss.decisions[rn] \in OptionLabels
    /\ \A row \in WrittenRows : Len(row[5]) = 1 /\ RowChoice(row) \in OptionLabels

\* a step that records a decision, changes the score or moves the round out
\* of the chat/decision phase is the press of one of the four option buttons
OnlyLabelsDecide ==
    (/\ session' = session
     /\ ChatPage(ss)
     /\ \/ ss'.decisions # ss.decisions
        \/ ss'.total_score # ss.total_score
        \/ ~ChatPage(ss')) =>
        LET scenario == CurrentScenario(ss)
        IN  /\ \E label \in OptionLabels :
                  /\ ss'.decisions = Put(ss.decisions, scenario.round_num, label)
                  /\ ss'.total_score = ss.total_score + scenario.outcomes[label].total
            /\ OutcomePage(ss')
            /\ ss'.current_round = ss.current_round
            /\ CurrentHistory(ss') = CurrentHistory(ss)
            /\ ss'.team_memory = ss.team_memory
            /\ log_file' = log_file

\* C11: no decision label outside {A,B,C,D} ever takes effect: the decision
\* interface accepts a decision only through its four option buttons, so
\* every recorded decision and every choice written to the log is one of
\* A, B, C, D, and any step that records a decision, changes the score or
\* moves the round out of the chat/decision phase records one of these four
\* labels and leaves the chat history and the team memory unchanged.
C11_OnlyFourLabels == []ChoicesAreLabels /\ [][OnlyLabelsDecide]_vars

\* option D was chosen and the round was logged with it
C11_Witness ==
    /\ ss.experiment_started
    /\ Len(SessionRows) >= 1
    /\ RowChoice(SessionRows[1]) = "D"
    /\ \E rn \in DOMAIN ss.decisions : ss.decisions[rn] = "D"

\* after log_round has raised, no step of the same session advances the round
\* index, writes to the log or changes the team memory or the score
StoppedAfterLogFailure ==
    (log_failed /\ session' = session) =>
        /\ ss'.current_round = ss.current_round
        /\ log_file' = log_file
        /\ ss'.team_memory = ss.team_memory
        /\ ss'.total_score = ss.total_score
        /\ ss'.experiment_complete = ss.experiment_complete

\* C12: a log-write failure stops the session: once log_round has failed for
\* a round, no later step of that session advances the round index, enters a
\* later round, writes a further record or changes the team memory or the
\* score.
C12_LogFailureIsFatal == [][StoppedAfterLogFailure]_vars

\* load_scenarios raises on the scenario file
FileRaises == \E i \in 1..Len(scenario_csv) : RowRaises(scenario_csv[i])

\* while the experiment is not started nothing of a round has happened
IdleUntilStarted ==
    ~ss.experiment_started =>
        /\ ~ss.experiment_complete
        /\ ss.current_round = 0
        /\ ss.chat_histories = EmptyDict
        /\ ss.decisions = EmptyDict
        /\ ss.instructions = EmptyDict
        /\ ss.team_memory = TeamMemory
        /\ ss.total_score = 0
        /\ SessionRows = <<>>

\* a press of "Start Experiment" in which load_scenarios or init_log raises
\* leaves the experiment not started and the log file as it was
AbortedStart ==
    (/\ WelcomePage(ss)
     /\ session' = session
     /\ FileRaises \/ counters'.extras = counters.extras + 1) =>
        /\ ~ss'.experiment_started
        /\ log_exists' = log_exists
        /\ log_file' = log_file

\* C13: a failure while loading the scenarios or initialising the log at
\* Start aborts the start: experiment_started stays false and the log is
\* not touched, and as long as the experiment is not started no round is
\* entered, no chat, decision or adaptation has happened and no record is
\* written; a scenario file that does not load never starts a session.
C13_FailedStartAborts ==
    [](IdleUntilStarted /\ (FileRaises => ~ss.experiment_started))
    /\ [][AbortedStart]_vars

\* Start was pressed, the scenarios loaded and init_log raised
C13_Witness ==
    /\ ~ss.experiment_started
    /\ ss.participant_id # NoneValue
    /\ ss.scenarios # <<>>
    /\ counters.extras = 1
    /\ ~log_exists

\* a Continue that writes a record writes, as instruction_text, the content
\* the round's instruction field has when the button is pressed
LoggedInstructionIsField ==
    (OutcomePage(ss) /\ Len(log_file') = Len(log_file) + 1) =>
        log_file'[Len(log_file')][12]
            = WidgetValue(ss, CurrentScenario(ss).round_num)

\* C14: the instruction_text of a round's record is the content of that
\* round's instruction field at the moment Continue is pressed, and so is
\* empty when the field is empty at that moment, also when an earlier
\* entry was cleared.
C14_LoggedInstructionText == [][LoggedInstructionIsField]_vars

\* the chat history written in each record of the session is the sequence of
\* turns exchanged while that record's round was the current one
LoggedChatIsOwn ==
    \A i \in 1..Len(SessionRows) :
        SessionRows[i][11] = json_dumps(Get(exchanged, i - 1, <<>>))

\* the chat history of a decided round gets no further turn
DecidedChatFrozen ==
    (session' = session) =>
        \A rn \in DOMAIN ss.decisions :
            Get(ss'.chat_histories, rn, <<>>) = Get(ss.chat_histories, rn, <<>>)

\* C15: a round's chat history is scoped to that round and frozen once the
\* round is decided: no turn is added to it after the decision or after
\* logging, and the chat history written in the round's record is exactly
\* the ordered sequence of turns exchanged while that round was current
\* (empty if no message was sent), with no turn of any other round, for
\* every catalog the loader returns.
C15_ChatScopedToRound == []LoggedChatIsOwn /\ [][DecidedChatFrozen]_vars

\* part, a text that is not empty, occurs in text at position i
OccursAt(text, part, i) ==
    /\ text[i] = part[1]
    /\ i + Len(part) - 1 <= Len(text)
    /\ \A j \in 2..Len(part) : text[i + j - 1] = part[j]

\* the positions at which part occurs in text
Occurrences(text, part) == { i \in 1..Len(text) : OccursAt(text, part, i) }

\* the explanation lengths a prompt is built for: the three the program uses
\* and one it never assigns
PromptLengths == {LEN_short, LEN_medium, LEN_long, LenOther}

\* the length directive the claim names for an explanation length
DirectiveFor(explanation_length) ==
    IF explanation_length = LEN_short THEN SHORT_DIRECTIVE
    ELSE IF explanation_length = LEN_long THEN LONG_DIRECTIVE
    ELSE MODERATE_DIRECTIVE

\* prompt is composed as the claim says for this AI-private text, this
\* human-private text and these two settings
PromptComposed(prompt, ai_private_info, human_private_info, focus_equity,
               explanation_length) ==
    LET directive == DirectiveFor(explanation_length)
        preamble == PROMPT_HEAD \o ai_private_info \o PROMPT_ROLE
        equity_at == Occurrences(prompt, EQUITY_DIRECTIVE)
        short_at == Occurrences(prompt, SHORT_DIRECTIVE)
        long_at == Occurrences(prompt, LONG_DIRECTIVE)
        moderate_at == Occurrences(prompt, MODERATE_DIRECTIVE)
        length_at == short_at \cup long_at \cup moderate_at
    IN  /\ SubSeq(prompt, 1, Len(preamble)) = preamble
        /\ SubSeq(prompt, Len(PROMPT_HEAD) + 1, Len(PROMPT_HEAD) + Len(ai_private_info))
               = ai_private_info
        /\ (equity_at # {}) = focus_equity
        /\ focus_equity => equity_at = {Len(preamble) + 1}
        /\ Cardinality(length_at) = 1
        /\ length_at = (IF directive = SHORT_DIRECTIVE THEN short_at
                        ELSE IF directive = LONG_DIRECTIVE THEN long_at
                        ELSE moderate_at)
        /\ \A i \in length_at :
              /\ i + Len(directive) - 1 = Len(prompt)
              /\ \A e \in equity_at : e + Len(EQUITY_DIRECTIVE) = i
              /\ equity_at = {} => i = Len(preamble) + 1
        /\ Occurrences(prompt, human_private_info) = {}

\* on the chat page, the prompt built for the current scenario and any two
\* settings is composed as the claim says, and depends on nothing else of
\* the scenario or the memory
PromptOfCurrentScenario ==
    ChatPage(ss) =>
        \A length \in PromptLengths, equity \in BOOLEAN :
            LET scenario == CurrentScenario(ss)
                memory == [ss.team_memory EXCEPT !.explanation_length = length,
                                                 !.focus_equity = equity]
                other == [scenario EXCEPT !.human_private_info = MsgWhy,
                                          !.title = <<>>, !.options_text = <<>>]
            IN  /\ PromptComposed(system_prompt(scenario, memory),
                                  scenario.ai_private_info,
                                  scenario.human_private_info, equity, length)
                /\ system_prompt(other, [memory EXCEPT !.user_instructions = <<>>])
                       = system_prompt(scenario, memory)

\* the first message of a gateway request is the system message, holding the
\* prompt composed from the current scenario and the current team memory
RequestPrompt ==
    (gateway'.calls = gateway.calls + 1) =>
        /\ gateway'.request[1].role = API_system
        /\ PromptComposed(gateway'.request[1].content,
                          CurrentScenario(ss).ai_private_info,
                          CurrentScenario(ss).human_private_info,
                          ss.team_memory.focus_equity,
                          ss.team_memory.explanation_length)

\* C16: the system prompt is a function of (scenario.ai_private_info,
\* focus_equity, explanation_length) composed in fixed order: the preamble
\* with the AI-private text verbatim; then the equity directive if and only
\* if focus_equity is true; then exactly one length directive, the short one
\* for "short", the long one for "long" and the moderate one for "medium"
\* or any other value; the equity directive, when present, precedes the
\* length directive, and the human-private text does not appear in it.
C16_SystemPrompt == []PromptOfCurrentScenario /\ [][RequestPrompt]_vars

\* a request was sent in the second round with the equity directive and the
\* short directive, which the first round's instruction asked for
C16_Witness ==
    /\ gateway.calls >= 1
    /\ ss.current_round = 1
    /\ ChatPage(ss)
    /\ CurrentHistory(ss) # <<>>
    /\ ss.team_memory.focus_equity
    /\ ss.team_memory.explanation_length = LEN_short
    /\ Occurrences(gateway.request[1].content, EQUITY_DIRECTIVE) # {}
    /\ Occurrences(gateway.request[1].content, SHORT_DIRECTIVE) # {}

\* the message list of a gateway request: the system prompt, the turns the
\* round's history held before this message, the new message
RequestMessages ==
    (gateway'.calls = gateway.calls + 1) =>
        LET old == CurrentHistory(ss)
            new == CurrentHistory(ss')
            request == gateway'.request
            user_message == new[Len(old) + 1][2]
        IN  /\ SubSeq(new, 1, Len(old)) = old
            /\ new[Len(old) + 1][1] = ROLE_participant
            /\ Len(request) = Len(old) + 2
            /\ request[1] = [role |-> API_system,
                             content |-> system_prompt(CurrentScenario(ss),
                                                       ss.team_memory)]
            /\ \A i \in 1..Len(old) :
                  /\ request[i + 1].content = old[i][2]
                  /\ old[i][1] = ROLE_participant => request[i + 1].role = API_user
                  /\ old[i][1] = ROLE_ai => request[i + 1].role = API_assistant
            /\ request[Len(request)] = [role |-> API_user, content |-> user_message]

\* C17: for every chat exchange the message list sent to the gateway is the
\* system prompt first, then every turn already in the round's history
\* before this message, in order, participant turns with the role "user"
\* and ai turns with the role "assistant", then the new participant
\* message last and exactly once.
C17_RequestMessages == [][RequestMessages]_vars

\* the second request of a round: system prompt, "hi", the reply, "why?"
C17_Witness ==
    /\ gateway.calls = 2
    /\ Len(gateway.request) = 4
    /\ gateway.request[2] = [role |-> API_user, content |-> MsgHi]
    /\ gateway.request[3] = [role |-> API_assistant, content |-> Strip(ReplyText)]
    /\ gateway.request[4] = [role |-> API_user, content |-> MsgWhy]
    /\ Len(CurrentHistory(ss)) = 4

\* history has even length and alternates participant, ai, participant, ai
Alternating(history) ==
    /\ Len(history) % 2 = 0
    /\ \A i \in 1..Len(history) :
          history[i][1] = (IF i % 2 = 1 THEN ROLE_participant ELSE ROLE_ai)

\* between events every round's chat history alternates
HistoriesAlternate ==
    \A rn \in DOMAIN ss.chat_histories : Alternating(ss.chat_histories[rn])

\* a step of a session changes a chat history exactly when it makes a gateway
\* call, it makes one call, and the current round's history gets the
\* participant turn and then the ai turn and no other history changes
OneCallTwoTurns ==
    (session' = session) =>
        IF \/ gateway'.calls # gateway.calls
           \/ \E rn \in DOMAIN ss.chat_histories :
                 Get(ss'.chat_histories, rn, <<>>) # ss.chat_histories[rn]
        THEN LET rn == CurrentScenario(ss).round_num
                 old == CurrentHistory(ss)
                 new == CurrentHistory(ss')
             IN  /\ ChatPage(ss)
                 /\ gateway'.calls = gateway.calls + 1
                 /\ Len(new) = Len(old) + 2
                 /\ SubSeq(new, 1, Len(old)) = old
                 /\ new[Len(old) + 1][1] = ROLE_participant
                 /\ new[Len(old) + 2][1] = ROLE_ai
                 /\ new[Len(old) + 2][2] # <<>>
                 /\ \A other \in DOMAIN ss.chat_histories \ {rn} :
                       Get(ss'.chat_histories, other, <<>>) = ss.chat_histories[other]
        ELSE \A rn \in DOMAIN ss'.chat_histories \ DOMAIN ss.chat_histories :
                 ss'.chat_histories[rn] = <<>>

\* C18: each participant message causes exactly one gateway request and
\* appends exactly two turns to the current round's history, the participant
\* turn and then the ai turn; between events every round's chat history has
\* even length and alternates participant, ai, ... starting with
\* participant, also when the reply is the empty-reply sentinel or the
\* error marker.
C18_TwoTurnsPerMessage == []HistoriesAlternate /\ [][OneCallTwoTurns]_vars

\* a round with two exchanges, the first answered by the empty-reply
\* sentinel and the second by the error marker
C18_Witness ==
    /\ ChatPage(ss)
    /\ gateway.calls = 2
    /\ Len(CurrentHistory(ss)) = 4
    /\ CurrentHistory(ss)[2] = <<ROLE_ai, NO_CONTENT>>
    /\ CurrentHistory(ss)[4] = <<ROLE_ai, ErrorMarker(ErrDown)>>

\* seq1 is an initial part of seq2
IsPrefix(seq1, seq2) ==
    Len(seq1) <= Len(seq2) /\ SubSeq(seq2, 1, Len(seq1)) = seq1

\* before the session is complete: a chat exchange and a decision leave the
\* team memory unchanged, the memory changes only while the outcome page of
\* a decided round is shown, no instruction is removed, the memory is not
\* set back to its defaults, and a request that follows another in the same
\* round carries the same system prompt
MemoryFrame ==
    ~ss.experiment_complete =>
        /\ gateway'.calls # gateway.calls => ss'.team_memory = ss.team_memory
        /\ ss'.decisions # ss.decisions => ss'.team_memory = ss.team_memory
        /\ ss'.team_memory # ss.team_memory =>
              /\ OutcomePage(ss)
              /\ CurrentScenario(ss).round_num \in DOMAIN ss.decisions
              /\ ss'.team_memory # TeamMemory
        /\ IsPrefix(ss.team_memory.user_instructions,
                    ss'.team_memory.user_instructions)
        /\ (gateway'.calls # gateway.calls /\ CurrentHistory(ss) # <<>>) =>
              gateway'.request[1] = gateway.request[1]

\* C20: Team Memory changes only in the adaptation step of a decided round:
\* sending a chat message (with a successful or a failed gateway call) and
\* taking a decision leave explanation_length, focus_equity and the
\* instruction list unchanged, so every gateway call within one round is
\* built from the same Team Memory; and no event before the session is
\* complete resets Team Memory to its defaults or removes an entry from the
\* instruction list.
C20_MemoryChangesOnlyInAdaptation == [][MemoryFrame]_vars

\* the second round is talked through twice with the memory the first
\* round's instruction set, the second call having failed
C20_Witness ==
    /\ ss.current_round = 1
    /\ ChatPage(ss)
    /\ ss.team_memory.focus_equity
    /\ ss.team_memory.user_instructions # <<>>
    /\ Len(CurrentHistory(ss)) = 4
    /\ gateway.last.kind = "error"
    /\ Occurrences(gateway.request[1].content, EQUITY_DIRECTIVE) # {}

\* the session is complete exactly when it has logged as many rounds as the
\* catalog has scenarios
CompleteWhenAllLogged ==
    ss.experiment_complete <=> (Len(SessionRows) = Len(ss.scenarios))

\* once complete, no round is shown and no step of the session changes the
\* round index or the log
NoRoundAfterComplete ==
    (ss.experiment_complete /\ session' = session) =>
        /\ ss'.experiment_complete
        /\ ~ScenarioShown(ss')
        /\ ss'.current_round = ss.current_round
        /\ log_file' = log_file

\* C19 as stated, for a catalog of any length: a started session eventually
\* reaches experiment_complete = true, it is complete exactly when the number
\* of rounds logged equals the number of scenarios, and once complete no
\* further round is entered.
C19_CompletesAnyLength ==
    /\ [](ss.experiment_started => CompleteWhenAllLogged)
    /\ (ss.experiment_started ~> ss.experiment_complete)
    /\ [][NoRoundAfterComplete]_vars

\* C19 for catalogs with at least one scenario: if in each round the
\* participant eventually takes a decision and presses Continue and the log
\* writes succeed, a started session eventually reaches experiment_complete
\* = true, it is complete exactly when the number of rounds logged equals
\* the number of scenarios, and once complete no further round is entered
\* until Start New Experiment.
C19_CompletesNonEmpty ==
    /\ []((ss.experiment_started /\ ss.scenarios # <<>>) => CompleteWhenAllLogged)
    /\ ((ss.experiment_started /\ ss.scenarios # <<>>) ~> ss.experiment_complete)
    /\ [][NoRoundAfterComplete]_vars

\* the catalog with a repeated round number was played to the end
C19_Witness ==
    /\ scenario_csv = FileDup
    /\ ss.experiment_complete
    /\ Len(ss.scenarios) = 2
    /\ Len(SessionRows) = 2
    /\ ss.current_round = 2
====
